---- MODULE Spec2Model ----
(***************************************************************************)
(* Model of the collaborative canvas relay server (src/server/server.js):  *)
(* the connection registry, the shared snapshot history canvasStates with  *)
(* its cursor currentStateIndex, the WebSocket message handler and the     *)
(* periodic clean-up timer.                                                *)
(*                                                                         *)
(* Every handler runs to completion on the single-threaded event loop, so  *)
(* each handler invocation is one atomic action.                           *)
(***************************************************************************)
EXTENDS Integers, Sequences, FiniteSets, TLC

---------------------------------------------------------------------------
(* Bounds of the model.                                                    *)

\* user ids a connection may be given (participants connected at once)
MaxUsers == 2
\* colours of the palette a connection may draw
MaxColors == 2
\* distinct data URLs a client of the full specification may report
MaxSnapshots == 2
\* longest history the full specification lets save-state build
MaxLen == 3
\* participants of the long-history specifications
CapUsers == 2
\* strokes on the largest canvas a client of the long-history specifications reports
CapStrokes == 51
\* strokes on the largest canvas a client of the push-only specification reports
PushStrokes == 55
\* strokes on the largest canvas a client of the registry specification reports
RelayStrokes == 2
\* strokes the pages of the stroke specification begin
MaxStrokes == 2
\* messages a page may have sent that the server has not handled yet
MaxInFlight == 2
\* messages sent to a page that it has not handled yet
MaxInbox == 4
\* strokes the pages of the display specification begin
DisplayStrokes == 1
\* times the pages of the display specification press undo, redo or clear
MaxPresses == 2

---------------------------------------------------------------------------
(* Program constants.                                                      *)

\* the number of snapshots the clean-up timer keeps
RetentionCap == 50
\* excludeUserId = null: nobody is excluded from a broadcast
NoUser == 0

---------------------------------------------------------------------------
(* JavaScript values that travel in the stateData field.                   *)

Undefined == <<"undefined">>
Null == <<"null">>
\* a string; Str(0) is the empty string, Str(n) the n-th distinct data URL
Str(n) == <<"str", n>>

\* ToBoolean, as `if (message.stateData)` applies it
Truthy(v) == v \notin {Undefined, Null, Str(0)}

Max(a, b) == IF a >= b THEN a ELSE b
Min(a, b) == IF a <= b THEN a ELSE b

\* message.f, undefined when the record has no such field
Get(m, f) == IF f \in DOMAIN m THEN m[f] ELSE Undefined

---------------------------------------------------------------------------
(* The array canvasStates: its elements are the sequence canvasStates,     *)
(* properties stored under a negative key are kept in canvasProps (a       *)
(* negative index is not an array index: it neither is an element nor      *)
(* counts in length, and neither splice nor `length = 0` removes it).      *)

\* Array.prototype.splice(start): delete from start to the end
SpliceFrom(arr, start) ==
    LET rel == IF start < 0 THEN Max(Len(arr) + start, 0) ELSE Min(start, Len(arr))
    IN  SubSeq(arr, 1, rel)

\* Array.prototype.splice(0, deleteCount): delete the first deleteCount elements
SpliceHead(arr, deleteCount) ==
    LET dc == Min(Max(deleteCount, 0), Len(arr))
    IN  SubSeq(arr, dc + 1, Len(arr))

\* arr[i], undefined outside the elements unless a property was stored there
ArrayGet(arr, props, i) ==
    IF i >= 0 /\ i < Len(arr) THEN arr[i + 1]
    ELSE IF i \in DOMAIN props THEN props[i]
    ELSE Undefined

\* the elements after arr[i] = v
ArraySetElems(arr, i, v) ==
    IF i < 0 THEN arr
    ELSE IF i < Len(arr) THEN [arr EXCEPT ![i + 1] = v]
    ELSE arr \o [k \in 1..(i - Len(arr)) |-> Undefined] \o <<v>>

\* the negative-key properties after arr[i] = v
ArraySetProps(props, i, v) ==
    IF i >= 0 THEN props
    ELSE [k \in DOMAIN props \cup {i} |-> IF k = i THEN v ELSE props[k]]

---------------------------------------------------------------------------
VARIABLES
    connections,        \* the Map userId -> {ws, color, name}, in insertion order
    canvasStates,       \* the elements of the snapshot array
    canvasProps,        \* properties of the snapshot array under negative keys
    currentStateIndex,  \* the cursor into canvasStates
    sent,               \* per user id, the messages the last handler sent to it
    event,              \* the event the last handler was invoked for
    isDrawing,          \* per user id, isDrawing of its page
    saveTimers,         \* per user id, the pending setTimeout(saveCanvasState, 100)
    toServer,           \* per user id, what its page sent and the server has not handled
    toClient,           \* per user id, what was sent to it and its page has not handled
    strokes,            \* strokes the pages began, draw-ends the server handled
    canvas,             \* per user id, the strokes painted on the canvas of its page
    lastX,              \* per user id, the place of the stroke its page draws
    presses             \* times an undo, redo or clear button was pressed

serverVars == <<connections, canvasStates, canvasProps, currentStateIndex, sent, event>>
clientVars ==
    <<isDrawing, saveTimers, toServer, toClient, strokes, canvas, lastX, presses>>
vars == <<serverVars, clientVars>>

UserIds == 1..MaxUsers
Palette == 1..MaxColors

Registered == {connections[i].userId : i \in DOMAIN connections}
OpenUsers == {connections[i].userId : i \in {j \in DOMAIN connections :
                                              connections[j].readyState = "OPEN"}}

NoneSent == [u \in UserIds |-> <<>>]
NoProps == [k \in {} |-> Undefined]

\* JSON.stringify drops a field whose value is undefined
Stringify(m) ==
    IF "stateData" \in DOMAIN m /\ m.stateData = Undefined
    THEN [f \in DOMAIN m \ {"stateData"} |-> m[f]]
    ELSE m

\* broadcastToAll giving up at the first client whose transport is not open
broadcastStopsAtClosed(conns, message, excludeUserId) ==
    [u \in UserIds |->
        IF \E i \in DOMAIN conns :
              /\ conns[i].userId = u
              /\ u # excludeUserId
              /\ \A j \in 1..i : conns[j].readyState = "OPEN"
        THEN <<Stringify(message)>>
        ELSE <<>>]

\* broadcastToAll: what each user id is sent
broadcastToAll(conns, message, excludeUserId) ==
    [u \in UserIds |->
        IF \E i \in DOMAIN conns :
              /\ conns[i].userId = u
              /\ u # excludeUserId
              /\ conns[i].readyState = "OPEN"
        THEN <<Stringify(message)>>
        ELSE <<>>]

Init ==
    /\ connections = <<>>
    /\ canvasStates = <<>>
    /\ canvasProps = NoProps
    /\ currentStateIndex = -1
    /\ sent = NoneSent
    /\ event = [on |-> "listen"]
    /\ isDrawing = [u \in UserIds |-> FALSE]
    /\ saveTimers = [u \in UserIds |-> 0]
    /\ toServer = [u \in UserIds |-> <<>>]
    /\ toClient = [u \in UserIds |-> <<>>]
    /\ strokes = [begun |-> 0, ended |-> 0]
    /\ canvas = [u \in UserIds |-> {}]
    /\ lastX = [u \in UserIds |-> 0]
    /\ presses = 0

---------------------------------------------------------------------------
(* ws.on('message'): one operator per case of the switch.                  *)

Received(u, m) == event' = [on |-> "message", from |-> u, message |-> m]

\* Undo without the floor: the cursor is decremented whatever its value
UndoUnguarded(u, m) ==
    /\ Received(u, m)
    /\ currentStateIndex' = currentStateIndex - 1
    /\ sent' = broadcastToAll(connections,
                  [type |-> "undo",
                   stateIndex |-> currentStateIndex - 1,
                   stateData |-> ArrayGet(canvasStates, canvasProps,
                                          currentStateIndex - 1)],
                  NoUser)
    /\ UNCHANGED <<connections, canvasStates, canvasProps>>

\* Undo reading the snapshot before it moves the cursor
UndoStaleSnapshot(u, m) ==
    /\ Received(u, m)
    /\ IF currentStateIndex > 0
       THEN /\ currentStateIndex' = currentStateIndex - 1
            /\ sent' = broadcastToAll(connections,
                          [type |-> "undo",
                           stateIndex |-> currentStateIndex - 1,
                           stateData |-> ArrayGet(canvasStates, canvasProps,
                                                  currentStateIndex)],
                          NoUser)
       ELSE IF currentStateIndex = 0
       THEN /\ currentStateIndex' = -1
            /\ sent' = broadcastToAll(connections,
                          [type |-> "undo", stateIndex |-> -1, stateData |-> Null],
                          NoUser)
       ELSE /\ currentStateIndex' = currentStateIndex
            /\ sent' = NoneSent
    /\ UNCHANGED <<connections, canvasStates, canvasProps>>

\* Undo whose second branch tests `<= 0`: the blank canvas is announced again
UndoFloorRebroadcasts(u, m) ==
    /\ Received(u, m)
    /\ IF currentStateIndex > 0
       THEN /\ currentStateIndex' = currentStateIndex - 1
            /\ sent' = broadcastToAll(connections,
                          [type |-> "undo",
                           stateIndex |-> currentStateIndex - 1,
                           stateData |-> ArrayGet(canvasStates, canvasProps,
                                                  currentStateIndex - 1)],
                          NoUser)
       ELSE /\ currentStateIndex' = -1
            /\ sent' = broadcastToAll(connections,
                          [type |-> "undo", stateIndex |-> -1, stateData |-> Null],
                          NoUser)
    /\ UNCHANGED <<connections, canvasStates, canvasProps>>

\* case 'undo'
Undo(u, m) ==
    /\ Received(u, m)
    /\ IF currentStateIndex > 0
       THEN /\ currentStateIndex' = currentStateIndex - 1
            /\ sent' = broadcastToAll(connections,
                          [type |-> "undo",
                           stateIndex |-> currentStateIndex - 1,
                           stateData |-> ArrayGet(canvasStates, canvasProps,
                                                  currentStateIndex - 1)],
                          NoUser)
       ELSE IF currentStateIndex = 0
       THEN /\ currentStateIndex' = -1
            /\ sent' = broadcastToAll(connections,
                          [type |-> "undo", stateIndex |-> -1, stateData |-> Null],
                          NoUser)
       ELSE /\ currentStateIndex' = currentStateIndex
            /\ sent' = NoneSent
    /\ UNCHANGED <<connections, canvasStates, canvasProps>>

\* Redo testing `< canvasStates.length`: one step past the newest entry
RedoPastTop(u, m) ==
    /\ Received(u, m)
    /\ IF currentStateIndex < Len(canvasStates)
       THEN /\ currentStateIndex' = currentStateIndex + 1
            /\ sent' = broadcastToAll(connections,
                          [type |-> "redo",
                           stateIndex |-> currentStateIndex + 1,
                           stateData |-> ArrayGet(canvasStates, canvasProps,
                                                  currentStateIndex + 1)],
                          NoUser)
       ELSE /\ currentStateIndex' = currentStateIndex
            /\ sent' = NoneSent
    /\ UNCHANGED <<connections, canvasStates, canvasProps>>

\* Redo jumping to the newest entry
RedoToTop(u, m) ==
    /\ Received(u, m)
    /\ IF currentStateIndex < Len(canvasStates) - 1
       THEN /\ currentStateIndex' = Len(canvasStates) - 1
            /\ sent' = broadcastToAll(connections,
                          [type |-> "redo",
                           stateIndex |-> Len(canvasStates) - 1,
                           stateData |-> ArrayGet(canvasStates, canvasProps,
                                                  Len(canvasStates) - 1)],
                          NoUser)
       ELSE /\ currentStateIndex' = currentStateIndex
            /\ sent' = NoneSent
    /\ UNCHANGED <<connections, canvasStates, canvasProps>>

\* case 'redo'
Redo(u, m) ==
    /\ Received(u, m)
    /\ IF currentStateIndex < Len(canvasStates) - 1
       THEN /\ currentStateIndex' = currentStateIndex + 1
            /\ sent' = broadcastToAll(connections,
                          [type |-> "redo",
                           stateIndex |-> currentStateIndex + 1,
                           stateData |-> ArrayGet(canvasStates, canvasProps,
                                                  currentStateIndex + 1)],
                          NoUser)
       ELSE /\ currentStateIndex' = currentStateIndex
            /\ sent' = NoneSent
    /\ UNCHANGED <<connections, canvasStates, canvasProps>>

\* case 'clear' without canvasStates.length = 0
ClearKeepsEntries(u, m) ==
    /\ Received(u, m)
    /\ currentStateIndex' = -1
    /\ sent' = broadcastToAll(connections, [type |-> "clear", userId |-> u], NoUser)
    /\ UNCHANGED <<connections, canvasStates, canvasProps>>

\* case 'clear'
Clear(u, m) ==
    /\ Received(u, m)
    /\ currentStateIndex' = -1
    /\ canvasStates' = <<>>
    /\ sent' = broadcastToAll(connections, [type |-> "clear", userId |-> u], NoUser)
    /\ UNCHANGED <<connections, canvasProps>>

\* case 'save-state' testing the presence of stateData, not its truthiness
SaveStateAnyPayload(u, m) ==
    /\ Received(u, m)
    /\ IF "stateData" \in DOMAIN m
       THEN LET kept == IF currentStateIndex < Len(canvasStates) - 1
                        THEN SpliceFrom(canvasStates, currentStateIndex + 1)
                        ELSE canvasStates
            IN  /\ currentStateIndex' = currentStateIndex + 1
                /\ canvasStates' = ArraySetElems(kept, currentStateIndex + 1, m.stateData)
                /\ canvasProps' = ArraySetProps(canvasProps, currentStateIndex + 1,
                                                m.stateData)
       ELSE UNCHANGED <<currentStateIndex, canvasStates, canvasProps>>
    /\ sent' = NoneSent
    /\ UNCHANGED connections

\* case 'save-state'
SaveState(u, m) ==
    /\ Received(u, m)
    /\ IF Truthy(Get(m, "stateData"))
       THEN LET kept == IF currentStateIndex < Len(canvasStates) - 1
                        THEN SpliceFrom(canvasStates, currentStateIndex + 1)
                        ELSE canvasStates
            IN  /\ currentStateIndex' = currentStateIndex + 1
                /\ canvasStates' = ArraySetElems(kept, currentStateIndex + 1, m.stateData)
                /\ canvasProps' = ArraySetProps(canvasProps, currentStateIndex + 1,
                                                m.stateData)
       ELSE UNCHANGED <<currentStateIndex, canvasStates, canvasProps>>
    /\ sent' = NoneSent
    /\ UNCHANGED connections

\* case 'draw-end' testing only that the message carries a userId
DrawEndAnyUserId(u, m) ==
    /\ Received(u, m)
    /\ sent' = IF "userId" \in DOMAIN m
               THEN broadcastToAll(connections, [type |-> "save-state", userId |-> u],
                                   NoUser)
               ELSE NoneSent
    /\ UNCHANGED <<connections, canvasStates, canvasProps, currentStateIndex>>

\* case 'draw-end'
DrawEnd(u, m) ==
    /\ Received(u, m)
    /\ sent' = IF "userId" \in DOMAIN m /\ m.userId = u
               THEN broadcastToAll(connections, [type |-> "save-state", userId |-> u],
                                   NoUser)
               ELSE NoneSent
    /\ UNCHANGED <<connections, canvasStates, canvasProps, currentStateIndex>>

\* {userId: userId, ...message}: the inbound userId wins
WithUserIdFirst(m, u) ==
    [f \in DOMAIN m \cup {"userId"} |-> IF f \in DOMAIN m THEN m[f] ELSE u]

\* {...message, userId: userId}
WithUserId(m, u) ==
    [f \in DOMAIN m \cup {"userId"} |-> IF f = "userId" THEN u ELSE m[f]]

\* {...message, userId: userId, color: userColor}
WithUserIdColor(m, u, c) ==
    [f \in DOMAIN m \cup {"userId", "color"} |->
        IF f = "userId" THEN u ELSE IF f = "color" THEN c ELSE m[f]]

\* the colour the connection handler of user u closed over
userColor(u) ==
    LET i == CHOOSE j \in DOMAIN connections : connections[j].userId = u
    IN  connections[i].color

\* case 'draw-start', case 'draw-move' without the excluded sender
DrawRelayToAll(u, m) ==
    /\ Received(u, m)
    /\ sent' = broadcastToAll(connections, WithUserId(m, u), NoUser)
    /\ UNCHANGED <<connections, canvasStates, canvasProps, currentStateIndex>>

\* case 'draw-start', case 'draw-move'
DrawRelay(u, m) ==
    /\ Received(u, m)
    /\ sent' = broadcastToAll(connections, WithUserId(m, u), u)
    /\ UNCHANGED <<connections, canvasStates, canvasProps, currentStateIndex>>

\* default without color: userColor
DefaultKeepsColor(u, m) ==
    /\ Received(u, m)
    /\ sent' = broadcastToAll(connections, WithUserId(m, u), u)
    /\ UNCHANGED <<connections, canvasStates, canvasProps, currentStateIndex>>

\* default
Default(u, m) ==
    /\ Received(u, m)
    /\ sent' = broadcastToAll(connections, WithUserIdColor(m, u, userColor(u)), u)
    /\ UNCHANGED <<connections, canvasStates, canvasProps, currentStateIndex>>

\* a catch that drops the connection of the sender
ParseErrorDrops(u) ==
    /\ event' = [on |-> "unparsable", from |-> u]
    /\ sent' = NoneSent
    /\ connections' = SelectSeq(connections, LAMBDA r : r.userId # u)
    /\ UNCHANGED <<canvasStates, canvasProps, currentStateIndex>>

\* JSON.parse throws: the catch logs the error
ParseError(u) ==
    /\ event' = [on |-> "unparsable", from |-> u]
    /\ sent' = NoneSent
    /\ UNCHANGED <<connections, canvasStates, canvasProps, currentStateIndex>>

\* switch (message.type)
OnMessage(u, m) ==
    CASE m.type = "draw-end" -> DrawEnd(u, m)
      [] m.type = "undo" -> Undo(u, m)
      [] m.type = "redo" -> Redo(u, m)
      [] m.type = "clear" -> Clear(u, m)
      [] m.type = "save-state" -> SaveState(u, m)
      [] m.type \in {"draw-start", "draw-move"} -> DrawRelay(u, m)
      [] OTHER -> Default(u, m)

---------------------------------------------------------------------------
(* wss.on('connection') and the clean-up timer.                            *)

\* wss.on('connection') sending the newest snapshot instead of the one at the cursor
ConnectionSendsNewest(u, c) ==
    LET userName == Len(connections) + 1
        conns == Append(connections,
                        [userId |-> u, color |-> c, name |-> userName,
                         readyState |-> "OPEN"])
        currentUsers == [i \in DOMAIN conns |->
                            [id |-> conns[i].userId, color |-> conns[i].color,
                             name |-> conns[i].name]]
        direct == <<[type |-> "welcome", userId |-> u, color |-> c, name |-> "You"],
                    [type |-> "user-list", data |-> currentUsers]>>
                  \o (IF currentStateIndex >= 0
                      THEN <<Stringify([type |-> "canvas-state",
                                        stateIndex |-> currentStateIndex,
                                        stateData |-> ArrayGet(canvasStates, canvasProps,
                                                               Len(canvasStates) - 1)])>>
                      ELSE <<>>)
        joined == broadcastToAll(conns,
                      [type |-> "user-joined", userId |-> u, color |-> c,
                       name |-> userName],
                      NoUser)
    IN  /\ u \notin Registered
        /\ connections' = conns
        /\ sent' = [v \in UserIds |-> IF v = u THEN direct \o joined[v] ELSE joined[v]]
        /\ event' = [on |-> "connection", from |-> u]
        /\ UNCHANGED <<canvasStates, canvasProps, currentStateIndex>>

\* wss.on('connection') building the user list before connections.set
ConnectionListsOthers(u, c) ==
    LET userName == Len(connections) + 1
        conns == Append(connections,
                        [userId |-> u, color |-> c, name |-> userName,
                         readyState |-> "OPEN"])
        currentUsers == [i \in DOMAIN connections |->
                            [id |-> connections[i].userId, color |-> connections[i].color,
                             name |-> connections[i].name]]
        direct == <<[type |-> "welcome", userId |-> u, color |-> c, name |-> "You"],
                    [type |-> "user-list", data |-> currentUsers]>>
                  \o (IF currentStateIndex >= 0
                      THEN <<Stringify([type |-> "canvas-state",
                                        stateIndex |-> currentStateIndex,
                                        stateData |-> ArrayGet(canvasStates, canvasProps,
                                                               currentStateIndex)])>>
                      ELSE <<>>)
        joined == broadcastToAll(conns,
                      [type |-> "user-joined", userId |-> u, color |-> c,
                       name |-> userName],
                      NoUser)
    IN  /\ u \notin Registered
        /\ connections' = conns
        /\ sent' = [v \in UserIds |-> IF v = u THEN direct \o joined[v] ELSE joined[v]]
        /\ event' = [on |-> "connection", from |-> u]
        /\ UNCHANGED <<canvasStates, canvasProps, currentStateIndex>>

\* wss.on('connection') leaving the joiner out of the user-joined broadcast
ConnectionTellsOthers(u, c) ==
    LET userName == Len(connections) + 1
        conns == Append(connections,
                        [userId |-> u, color |-> c, name |-> userName,
                         readyState |-> "OPEN"])
        currentUsers == [i \in DOMAIN conns |->
                            [id |-> conns[i].userId, color |-> conns[i].color,
                             name |-> conns[i].name]]
        direct == <<[type |-> "welcome", userId |-> u, color |-> c, name |-> "You"],
                    [type |-> "user-list", data |-> currentUsers]>>
                  \o (IF currentStateIndex >= 0
                      THEN <<Stringify([type |-> "canvas-state",
                                        stateIndex |-> currentStateIndex,
                                        stateData |-> ArrayGet(canvasStates, canvasProps,
                                                               currentStateIndex)])>>
                      ELSE <<>>)
        joined == broadcastToAll(conns,
                      [type |-> "user-joined", userId |-> u, color |-> c,
                       name |-> userName],
                      u)
    IN  /\ u \notin Registered
        /\ connections' = conns
        /\ sent' = [v \in UserIds |-> IF v = u THEN direct \o joined[v] ELSE joined[v]]
        /\ event' = [on |-> "connection", from |-> u]
        /\ UNCHANGED <<canvasStates, canvasProps, currentStateIndex>>

\* wss.on('connection'): userId is fresh, userColor a random palette entry
Connection(u, c) ==
    LET userName == Len(connections) + 1
        conns == Append(connections,
                        [userId |-> u, color |-> c, name |-> userName,
                         readyState |-> "OPEN"])
        currentUsers == [i \in DOMAIN conns |->
                            [id |-> conns[i].userId, color |-> conns[i].color,
                             name |-> conns[i].name]]
        direct == <<[type |-> "welcome", userId |-> u, color |-> c, name |-> "You"],
                    [type |-> "user-list", data |-> currentUsers]>>
                  \o (IF currentStateIndex >= 0
                      THEN <<Stringify([type |-> "canvas-state",
                                        stateIndex |-> currentStateIndex,
                                        stateData |-> ArrayGet(canvasStates, canvasProps,
                                                               currentStateIndex)])>>
                      ELSE <<>>)
        joined == broadcastToAll(conns,
                      [type |-> "user-joined", userId |-> u, color |-> c,
                       name |-> userName],
                      NoUser)
    IN  /\ u \notin Registered
        /\ connections' = conns
        /\ sent' = [v \in UserIds |-> IF v = u THEN direct \o joined[v] ELSE joined[v]]
        /\ event' = [on |-> "connection", from |-> u]
        /\ UNCHANGED <<canvasStates, canvasProps, currentStateIndex>>

\* the timer comparing with one more than the cap
CleanUpLateThreshold ==
    /\ event' = [on |-> "interval"]
    /\ sent' = NoneSent
    /\ IF Len(canvasStates) > RetentionCap + 1
       THEN LET statesToRemove == Len(canvasStates) - RetentionCap
            IN  /\ canvasStates' = SpliceHead(canvasStates, statesToRemove)
                /\ currentStateIndex' = currentStateIndex - statesToRemove
       ELSE UNCHANGED <<canvasStates, currentStateIndex>>
    /\ UNCHANGED <<connections, canvasProps>>

\* setInterval(..., 60000)
CleanUp ==
    /\ event' = [on |-> "interval"]
    /\ sent' = NoneSent
    /\ IF Len(canvasStates) > RetentionCap
       THEN LET statesToRemove == Len(canvasStates) - RetentionCap
            IN  /\ canvasStates' = SpliceHead(canvasStates, statesToRemove)
                /\ currentStateIndex' = currentStateIndex - statesToRemove
       ELSE UNCHANGED <<canvasStates, currentStateIndex>>
    /\ UNCHANGED <<connections, canvasProps>>

\* ws.on('close') broadcasting before connections.delete
CloseBroadcastsFirst(u) ==
    LET conns == SelectSeq(connections, LAMBDA r : r.userId # u)
    IN  /\ u \in Registered
        /\ connections' = conns
        /\ sent' = broadcastToAll(connections, [type |-> "user-left", userId |-> u],
                                  NoUser)
        /\ event' = [on |-> "close", from |-> u]
        /\ UNCHANGED <<canvasStates, canvasProps, currentStateIndex>>

\* ws.on('close')
Close(u) ==
    LET conns == SelectSeq(connections, LAMBDA r : r.userId # u)
    IN  /\ u \in Registered
        /\ connections' = conns
        /\ sent' = broadcastToAll(conns, [type |-> "user-left", userId |-> u], NoUser)
        /\ event' = [on |-> "close", from |-> u]
        /\ UNCHANGED <<canvasStates, canvasProps, currentStateIndex>>

\* the transport of u leaves OPEN (a close frame arrived, the socket is still up);
\* the 'close' event follows later
TransportClosing(u) ==
    /\ u \in OpenUsers
    /\ connections' = [i \in DOMAIN connections |->
                          IF connections[i].userId = u
                          THEN [connections[i] EXCEPT !.readyState = "CLOSING"]
                          ELSE connections[i]]
    /\ sent' = NoneSent
    /\ event' = [on |-> "readyState", from |-> u]
    /\ UNCHANGED <<canvasStates, canvasProps, currentStateIndex>>

---------------------------------------------------------------------------
(* The full specification: every handler, with inputs from small sets.     *)

Snapshots == {Str(n) : n \in 1..MaxSnapshots}

\* the stateData a save-state may carry: absent, null, "", or a data URL
StateDataInputs ==
    {[type |-> "save-state"]}
    \cup {[type |-> "save-state", stateData |-> d] : d \in {Null, Str(0)} \cup Snapshots}

\* the userId a draw-end may carry: absent or any id
DrawEndInputs ==
    {[type |-> "draw-end"]} \cup {[type |-> "draw-end", userId |-> v] : v \in UserIds}

\* draw-start / draw-move records: the colour the client picked, with or
\* without a userId of the client's own choosing
DrawInputs ==
    {[type |-> t, x |-> 1, y |-> 1, color |-> c, size |-> 1] :
        t \in {"draw-start", "draw-move"}, c \in Palette}
    \cup {[type |-> "draw-move", x |-> 1, y |-> 1, color |-> c, size |-> 1,
           userId |-> v] : c \in Palette, v \in UserIds}

\* records of any other kind
OtherInputs ==
    {[type |-> "cursor-move", x |-> 1, y |-> 1]}
    \cup {[type |-> "cursor-move", x |-> 1, y |-> 1, color |-> c, userId |-> v] :
             c \in Palette, v \in UserIds}

Connect == \E u \in UserIds, c \in Palette : Connection(u, c)

Disconnect == \E u \in UserIds : Close(u)

Closing == \E u \in UserIds : TransportClosing(u)

RecvDrawEnd == \E u \in OpenUsers, m \in DrawEndInputs : OnMessage(u, m)

RecvUndo == \E u \in OpenUsers : OnMessage(u, [type |-> "undo"])

RecvRedo == \E u \in OpenUsers : OnMessage(u, [type |-> "redo"])

RecvClear == \E u \in OpenUsers : OnMessage(u, [type |-> "clear"])

RecvSaveState ==
    \E u \in OpenUsers, m \in StateDataInputs :
        /\ Truthy(Get(m, "stateData")) => Len(canvasStates) < MaxLen
        /\ OnMessage(u, m)

RecvDraw == \E u \in OpenUsers, m \in DrawInputs : OnMessage(u, m)

RecvOther == \E u \in OpenUsers, m \in OtherInputs : OnMessage(u, m)

RecvUnparsable == \E u \in OpenUsers : ParseError(u)

Next ==
    \/ Connect /\ UNCHANGED clientVars
    \/ Disconnect /\ UNCHANGED clientVars
    \/ Closing /\ UNCHANGED clientVars
    \/ RecvDrawEnd /\ UNCHANGED clientVars
    \/ RecvUndo /\ UNCHANGED clientVars
    \/ RecvRedo /\ UNCHANGED clientVars
    \/ RecvClear /\ UNCHANGED clientVars
    \/ RecvSaveState /\ UNCHANGED clientVars
    \/ RecvDraw /\ UNCHANGED clientVars
    \/ RecvOther /\ UNCHANGED clientVars
    \/ RecvUnparsable /\ UNCHANGED clientVars
    \/ CleanUp /\ UNCHANGED clientVars

Spec == Init /\ [][Next]_vars

---------------------------------------------------------------------------
(* The long-history specifications: up to CapUsers participants connect    *)
(* (lowest free id, first colour) and send save-state, undo, redo and      *)
(* clear.  The data URL a client reports is the picture the server holds   *)
(* at currentStateIndex with one more stroke on it, Str(n) being the       *)
(* canvas of n strokes; the blank canvas has none.                         *)

CapUserIds == 1..Min(CapUsers, MaxUsers)

Shown == ArrayGet(canvasStates, canvasProps, currentStateIndex)

NextSnapshot == IF Shown \in {Undefined, Null} THEN Str(1) ELSE Str(Shown[2] + 1)

CapConnect ==
    \E u \in CapUserIds :
        /\ \A v \in CapUserIds : v < u => v \in Registered
        /\ Connection(u, 1)

\* a save-state with the next data URL, while the canvas has at most limit strokes
SaveNext(limit) ==
    \E u \in OpenUsers :
        /\ NextSnapshot[2] <= limit
        /\ OnMessage(u, [type |-> "save-state", stateData |-> NextSnapshot])

CapSave == SaveNext(CapStrokes)

PushSave == SaveNext(PushStrokes)

CapSaveNothing ==
    \E u \in OpenUsers, m \in {[type |-> "save-state"],
                               [type |-> "save-state", stateData |-> Str(0)]} :
        OnMessage(u, m)

CapUndo == \E u \in OpenUsers : OnMessage(u, [type |-> "undo"])

CapRedo == \E u \in OpenUsers : OnMessage(u, [type |-> "redo"])

CapClear == \E u \in OpenUsers : OnMessage(u, [type |-> "clear"])

\* every message of the long-history participants and the clean-up timer
NextCap ==
    \/ CapConnect /\ UNCHANGED clientVars
    \/ CapSave /\ UNCHANGED clientVars
    \/ CapSaveNothing /\ UNCHANGED clientVars
    \/ CapUndo /\ UNCHANGED clientVars
    \/ CapRedo /\ UNCHANGED clientVars
    \/ CapClear /\ UNCHANGED clientVars
    \/ CleanUp /\ UNCHANGED clientVars

SpecCap == Init /\ [][NextCap]_vars

\* the timer keeps firing every 60 s
SpecCapFair == SpecCap /\ WF_vars(CleanUp /\ UNCHANGED clientVars)

\* the same messages with the clean-up timer never firing
NextNoSweep ==
    \/ CapConnect /\ UNCHANGED clientVars
    \/ CapSave /\ UNCHANGED clientVars
    \/ CapSaveNothing /\ UNCHANGED clientVars
    \/ CapUndo /\ UNCHANGED clientVars
    \/ CapRedo /\ UNCHANGED clientVars
    \/ CapClear /\ UNCHANGED clientVars

SpecNoSweep == Init /\ [][NextNoSweep]_vars

\* save-states with a payload only, and the clean-up timer
NextPush ==
    \/ CapConnect /\ UNCHANGED clientVars
    \/ PushSave /\ UNCHANGED clientVars
    \/ CleanUp /\ UNCHANGED clientVars

SpecPush == Init /\ [][NextPush]_vars

---------------------------------------------------------------------------
(* The registry specification: connections come and go in any order, with  *)
(* the colour draw fixed per user id, and send drawing, cursor and         *)
(* malformed messages over a short history.                                *)

\* the palette entry the random draw gives the connection of user id u
DrawnColor(u) == ((u - 1) % MaxColors) + 1

RelayConnect == \E u \in UserIds : Connection(u, DrawnColor(u))

\* a draw-start as the client sends it, and a draw-move that also carries a
\* userId of the client's choosing
RelayDrawInputs ==
    {[type |-> "draw-start", x |-> 1, y |-> 1, color |-> 1, size |-> 1],
     [type |-> "draw-move", x |-> 1, y |-> 1, color |-> MaxColors, size |-> 1,
      userId |-> 1]}

\* a cursor-move as the client sends it, and one that also carries a colour
\* and a userId of the client's choosing
RelayOtherInputs ==
    {[type |-> "cursor-move", x |-> 1, y |-> 1],
     [type |-> "cursor-move", x |-> 1, y |-> 1, color |-> 1, userId |-> 1]}

\* a draw-end as the client sends it, and one that carries a userId
RelayDrawEndInputs ==
    {[type |-> "draw-end"], [type |-> "draw-end", userId |-> 1]}

RelayDraw == \E u \in OpenUsers, m \in RelayDrawInputs : OnMessage(u, m)

RelayOther == \E u \in OpenUsers, m \in RelayOtherInputs : OnMessage(u, m)

RelayDrawEnd == \E u \in OpenUsers, m \in RelayDrawEndInputs : OnMessage(u, m)

RelaySave == SaveNext(RelayStrokes)

NextRelay ==
    \/ RelayConnect /\ UNCHANGED clientVars
    \/ Disconnect /\ UNCHANGED clientVars
    \/ Closing /\ UNCHANGED clientVars
    \/ RelayDraw /\ UNCHANGED clientVars
    \/ RelayOther /\ UNCHANGED clientVars
    \/ RelayDrawEnd /\ UNCHANGED clientVars
    \/ RecvUnparsable /\ UNCHANGED clientVars
    \/ RelaySave /\ UNCHANGED clientVars
    \/ RecvUndo /\ UNCHANGED clientVars
    \/ CleanUp /\ UNCHANGED clientVars

SpecRelay == Init /\ [][NextRelay]_vars

---------------------------------------------------------------------------
(* The stroke specification: the pages of the participants (canvas.js)     *)
(* draw strokes and handle what the server sends them; every message is in *)
(* flight between its sending and its handling. A canvas is the set of the *)
(* strokes painted on it; the k-th stroke begun is painted at place k.     *)

\* the places a stroke may be painted at
Places == 1..MaxStrokes

RECURSIVE Pixels(_)
\* the pixels of a canvas as a number: one bit per place
Pixels(c) ==
    IF c = {} THEN 0
    ELSE LET k == CHOOSE p \in c : TRUE
         IN  2^(k - 1) + Pixels(c \ {k})

\* canvas.toDataURL(): never the empty string, also for a blank canvas
toDataURL(c) == Str(1 + Pixels(c))

\* ctx.drawImage of the image decoded from a data URL
drawImage(stateData) ==
    {k \in Places : ((stateData[2] - 1) \div 2^(k - 1)) % 2 = 1}

\* DrawingCanvas.loadState: clear if there is no data, else replace the canvas
\* by the image (its decoding is taken to complete within the handler)
loadState(stateData) == IF Truthy(stateData) THEN drawImage(stateData) ELSE {}

\* CollaborativeApp.send: the page of u sends m if its socket is open
send(u, m) ==
    IF u \in OpenUsers THEN [toServer EXCEPT ![u] = Append(@, m)] ELSE toServer

\* mousedown / touchstart: startDrawing (moveTo, nothing painted), onDrawStart
StartDrawing(u) ==
    /\ u \in Registered
    /\ ~isDrawing[u]
    /\ strokes.begun < MaxStrokes
    /\ Len(toServer[u]) < MaxInFlight
    /\ isDrawing' = [isDrawing EXCEPT ![u] = TRUE]
    /\ lastX' = [lastX EXCEPT ![u] = strokes.begun + 1]
    /\ toServer' = send(u, [type |-> "draw-start", x |-> strokes.begun + 1, y |-> 1,
                            color |-> 1, size |-> 1])
    /\ strokes' = [strokes EXCEPT !.begun = @ + 1]
    /\ UNCHANGED <<serverVars, saveTimers, toClient, canvas, presses>>

\* mousemove / touchmove while drawing: draw (lineTo, stroke), onDraw
Draw(u) ==
    /\ isDrawing[u]
    /\ Len(toServer[u]) < MaxInFlight
    /\ canvas' = [canvas EXCEPT ![u] = @ \cup {lastX[u]}]
    /\ toServer' = send(u, [type |-> "draw-move", x |-> lastX[u], y |-> 1,
                            color |-> 1, size |-> 1])
    /\ UNCHANGED <<serverVars, isDrawing, saveTimers, toClient, strokes, lastX, presses>>

\* mouseup / mouseout / touchend: stopDrawing, onDrawEnd
StopDrawing(u) ==
    /\ isDrawing[u]
    /\ Len(toServer[u]) < MaxInFlight
    /\ isDrawing' = [isDrawing EXCEPT ![u] = FALSE]
    /\ toServer' = send(u, [type |-> "draw-end"])
    /\ saveTimers' = [saveTimers EXCEPT ![u] = @ + 1]
    /\ UNCHANGED <<serverVars, toClient, strokes, canvas, lastX, presses>>

\* saveCanvasState: the page of u sends the data URL of its canvas
saveCanvasState(u) ==
    toServer' = send(u, [type |-> "save-state", stateData |-> toDataURL(canvas[u])])

\* the callback of setTimeout(..., 100) in onDrawEnd
SaveTimer(u) ==
    /\ saveTimers[u] > 0
    /\ Len(toServer[u]) < MaxInFlight
    /\ saveTimers' = [saveTimers EXCEPT ![u] = @ - 1]
    /\ saveCanvasState(u)
    /\ UNCHANGED <<serverVars, isDrawing, toClient, strokes, canvas, lastX, presses>>

\* the canvas of a page after handleMessage(message)
Repainted(c, message) ==
    CASE message.type = "canvas-state" ->
            IF Truthy(Get(message, "stateData")) THEN loadState(message.stateData)
            ELSE c
      [] message.type = "draw-move" -> c \cup {message.x}
      [] message.type = "clear" -> {}
      [] message.type = "undo" ->
            IF Truthy(Get(message, "stateData")) THEN loadState(message.stateData)
            ELSE {}
      [] message.type = "redo" ->
            IF Truthy(Get(message, "stateData")) THEN loadState(message.stateData)
            ELSE c
      [] OTHER -> c

\* ws.onmessage: handleMessage
handleMessage(u) ==
    /\ toClient[u] # <<>>
    /\ IF Head(toClient[u]).type = "save-state"
       THEN /\ Len(toServer[u]) < MaxInFlight
            /\ saveCanvasState(u)
       ELSE UNCHANGED toServer
    /\ canvas' = [canvas EXCEPT ![u] = Repainted(@, Head(toClient[u]))]
    /\ toClient' = [toClient EXCEPT ![u] = Tail(@)]
    /\ UNCHANGED <<serverVars, isDrawing, saveTimers, strokes, lastX, presses>>

\* the kinds handleMessage answers by repainting the canvas or by sending;
\* the other kinds (welcome, user-list, user-joined, user-left, draw-start,
\* cursor-move) only update the user list, the cursors and the path position
Acting == {"canvas-state", "draw-move", "clear", "undo", "redo", "save-state"}

\* ws.send / client.ws.send: what the last handler sent joins the queues; a
\* message of a kind outside Acting is handled without trace and not queued
Transmit(fresh) ==
    /\ toClient' = [v \in UserIds |->
                       (IF v \in fresh THEN <<>> ELSE toClient[v])
                       \o SelectSeq(sent'[v], LAMBDA msg : msg.type \in Acting)]
    /\ \A v \in UserIds : Len(toClient'[v]) <= MaxInbox

\* a page opens: wss.on('connection') with the lowest free user id, which is
\* given again only once the page that had it has no stroke and no timer left
StrokeConnect ==
    \E u \in UserIds :
        /\ \A v \in UserIds : v < u => v \in Registered
        /\ ~isDrawing[u]
        /\ saveTimers[u] = 0
        /\ Connection(u, DrawnColor(u))
        /\ Transmit({u})
        /\ toServer' = [toServer EXCEPT ![u] = <<>>]
        /\ canvas' = [canvas EXCEPT ![u] = {}]
        /\ lastX' = [lastX EXCEPT ![u] = 0]
        /\ UNCHANGED <<isDrawing, saveTimers, strokes, presses>>

\* ws.on('message') for the oldest message of u in flight
StrokeRecv ==
    \E u \in Registered :
        /\ toServer[u] # <<>>
        /\ OnMessage(u, Head(toServer[u]))
        /\ Transmit({})
        /\ toServer' = [toServer EXCEPT ![u] = Tail(@)]
        /\ strokes' = IF Head(toServer[u]).type = "draw-end"
                      THEN [strokes EXCEPT !.ended = @ + 1]
                      ELSE strokes
        /\ UNCHANGED <<isDrawing, saveTimers, canvas, lastX, presses>>

\* the socket of u closes: ws.on('close'); what was in flight is lost
StrokeClose ==
    \E u \in Registered :
        /\ Close(u)
        /\ Transmit({u})
        /\ toServer' = [toServer EXCEPT ![u] = <<>>]
        /\ UNCHANGED <<isDrawing, saveTimers, strokes, canvas, lastX, presses>>

NextStroke ==
    \/ StrokeConnect
    \/ StrokeClose
    \/ StrokeRecv
    \/ \E u \in UserIds : StartDrawing(u)
    \/ \E u \in UserIds : Draw(u)
    \/ \E u \in UserIds : StopDrawing(u)
    \/ \E u \in UserIds : SaveTimer(u)
    \/ \E u \in UserIds : handleMessage(u)
    \/ CleanUp /\ UNCHANGED clientVars

SpecStroke == Init /\ [][NextStroke]_vars

---------------------------------------------------------------------------
(* The display specification: the pages stay connected, draw strokes and   *)
(* press the undo, redo and clear buttons.                                 *)

\* the undo button: sendUndo
sendUndo(u) ==
    /\ u \in Registered
    /\ presses < MaxPresses
    /\ presses' = presses + 1
    /\ Len(toServer[u]) < MaxInFlight
    /\ toServer' = send(u, [type |-> "undo"])
    /\ UNCHANGED <<serverVars, isDrawing, saveTimers, toClient, strokes, canvas, lastX>>

\* the redo button: sendRedo
sendRedo(u) ==
    /\ u \in Registered
    /\ presses < MaxPresses
    /\ presses' = presses + 1
    /\ Len(toServer[u]) < MaxInFlight
    /\ toServer' = send(u, [type |-> "redo"])
    /\ UNCHANGED <<serverVars, isDrawing, saveTimers, toClient, strokes, canvas, lastX>>

\* the clear button: sendClear, which also clears the page's own canvas
sendClear(u) ==
    /\ u \in Registered
    /\ presses < MaxPresses
    /\ presses' = presses + 1
    /\ Len(toServer[u]) < MaxInFlight
    /\ toServer' = send(u, [type |-> "clear"])
    /\ canvas' = [canvas EXCEPT ![u] = {}]
    /\ UNCHANGED <<serverVars, isDrawing, saveTimers, toClient, strokes, lastX>>

\* a stroke begins while the pages have begun fewer than DisplayStrokes
DisplayStart == \E u \in UserIds : strokes.begun < DisplayStrokes /\ StartDrawing(u)

NextDisplay ==
    \/ StrokeConnect
    \/ StrokeRecv
    \/ DisplayStart
    \/ \E u \in UserIds : Draw(u)
    \/ \E u \in UserIds : StopDrawing(u)
    \/ \E u \in UserIds : SaveTimer(u)
    \/ \E u \in UserIds : handleMessage(u)
    \/ \E u \in UserIds : sendUndo(u)
    \/ \E u \in UserIds : sendRedo(u)
    \/ \E u \in UserIds : sendClear(u)
    \/ CleanUp /\ UNCHANGED clientVars

SpecDisplay == Init /\ [][NextDisplay]_vars

---------------------------------------------------------------------------
(* Properties of the history and its cursor.                               *)

\* the last handler ran for a message of the given type
Handled(type) == event.on = "message" /\ event.message.type = type

\* what a broadcast of msg to everybody delivers: one copy to every registered
\* participant whose transport is open, nothing to any other user id
ToAllOpen(msg) ==
    [u \in UserIds |->
        IF \E i \in DOMAIN connections :
              connections[i].userId = u /\ connections[i].readyState = "OPEN"
        THEN <<msg>>
        ELSE <<>>]

\* C1: with the clean-up timer never firing, after every save-state (with or
\* without payload), undo, redo and clear from any participant, starting from
\* the empty history, -1 <= current <= length(history) - 1.
C1_CursorInRangeWithoutSweep ==
    /\ -1 <= currentStateIndex
    /\ currentStateIndex <= Len(canvasStates) - 1

\* C1 witness: a history longer than the retention cap, undone down to the
\* blank canvas by the last message.
C1_Witness ==
    /\ Handled("undo")
    /\ Len(canvasStates) > RetentionCap
    /\ currentStateIndex = -1
    /\ Cardinality(Registered) = 2

\* C2: in every reachable state, also after the clean-up timer fired following
\* undos, current is never below -1 and never above length(history) - 1.
C2_CursorInRangeAlways ==
    /\ currentStateIndex >= -1
    /\ currentStateIndex < Len(canvasStates)

\* C3: a save-state with payload P received with history H and cursor c leaves
\* history = H[0..c] followed by P and current = c + 1 = length - 1, with
\* history[current] = P.
C3_PushTruncatesThenAppends ==
    [][(/\ event'.on = "message"
        /\ event'.message.type = "save-state"
        /\ Truthy(Get(event'.message, "stateData")))
       => /\ currentStateIndex' = currentStateIndex + 1
          /\ canvasStates' = SubSeq(canvasStates, 1, currentStateIndex + 1)
                                \o <<event'.message.stateData>>
          /\ currentStateIndex' = Len(canvasStates') - 1
          /\ canvasStates'[currentStateIndex' + 1] = event'.message.stateData]_vars

\* C4: the history never holds more than the retention cap of 50 entries, in
\* particular right after a save-state push.
C4_LengthWithinCap == Len(canvasStates) <= RetentionCap

\* C5: when a trim removes the k oldest entries, current decreases by exactly k
\* and the snapshot at current after the trim is the one that was at current
\* before it, whatever the cursor position.
C5_TrimKeepsCursorSnapshot ==
    [][(event'.on = "interval" /\ Len(canvasStates') < Len(canvasStates))
       => LET k == Len(canvasStates) - Len(canvasStates')
          IN  /\ canvasStates' = SubSeq(canvasStates, k + 1, Len(canvasStates))
              /\ currentStateIndex' = currentStateIndex - k
              /\ ArrayGet(canvasStates', canvasProps', currentStateIndex')
                    = ArrayGet(canvasStates, canvasProps, currentStateIndex)]_vars

\* C6: from the empty history, after n > 50 save-states with payload and no
\* undo (n = 55 in the scenario) the history holds the 50 most recent
\* snapshots in order and current = 49.  With pushes only, the n-th snapshot
\* pushed is Str(n), so the newest entry tells n.
C6_AfterManyPushes ==
    (/\ Len(canvasStates) > 0
     /\ canvasStates[Len(canvasStates)][2] > RetentionCap)
    => LET n == canvasStates[Len(canvasStates)][2]
       IN  /\ Len(canvasStates) = RetentionCap
           /\ currentStateIndex = RetentionCap - 1
           /\ canvasStates = [i \in 1..RetentionCap |-> Str(n - RetentionCap + i)]

\* C7: an undo received while current > 0 decrements current by one, leaves the
\* history unchanged and sends exactly one undo message, carrying the new
\* current and the snapshot stored there, to every participant with an open
\* transport, the sender included.
C7_UndoAboveZero ==
    [][(/\ event'.on = "message"
        /\ event'.message.type = "undo"
        /\ currentStateIndex > 0)
       => /\ currentStateIndex' = currentStateIndex - 1
          /\ canvasStates' = canvasStates
          /\ connections' = connections
          /\ sent' = ToAllOpen([type |-> "undo",
                                stateIndex |-> currentStateIndex - 1,
                                stateData |-> canvasStates[currentStateIndex]])
          /\ Len(sent'[event'.from]) = 1]_vars

\* C7 witness: two participants, a history above the retention cap, and the
\* undo message of a step from current > 0 delivered to both.
C7_Witness ==
    /\ Handled("undo")
    /\ Cardinality(Registered) = 2
    /\ Len(canvasStates) > RetentionCap
    /\ currentStateIndex >= 0
    /\ \A u \in Registered :
          sent[u] = <<[type |-> "undo", stateIndex |-> currentStateIndex,
                       stateData |-> canvasStates[currentStateIndex + 1]]>>

\* C8: an undo at current = 0 sets current = -1 and broadcasts an undo with
\* stateIndex -1 and a null snapshot; an undo received while current < 0 (also
\* on the empty history) changes neither history nor current and sends nothing.
C8_UndoAtAndBelowZero ==
    [][(event'.on = "message" /\ event'.message.type = "undo")
       => /\ currentStateIndex = 0
             => /\ currentStateIndex' = -1
                /\ canvasStates' = canvasStates
                /\ sent' = ToAllOpen([type |-> "undo", stateIndex |-> -1,
                                      stateData |-> Null])
                /\ Len(sent'[event'.from]) = 1
          /\ currentStateIndex < 0
             => /\ currentStateIndex' = currentStateIndex
                /\ canvasStates' = canvasStates
                /\ canvasProps' = canvasProps
                /\ \A u \in UserIds : sent'[u] = <<>>]_vars

\* C8 witness: an undo handled as a no-op below zero, on a history that still
\* holds entries, with two participants connected.
C8_Witness ==
    /\ Handled("undo")
    /\ currentStateIndex < 0
    /\ Len(canvasStates) > 0
    /\ Cardinality(Registered) = 2
    /\ \A u \in UserIds : sent[u] = <<>>

\* C9: a redo received in any reachable state with current < length - 1
\* increments current by one, leaves the history unchanged and broadcasts a
\* redo whose stateIndex is the new current, 0 <= stateIndex <= length - 1,
\* with stateData = history[stateIndex].
C9_RedoBelowTop ==
    [][(/\ event'.on = "message"
        /\ event'.message.type = "redo"
        /\ currentStateIndex < Len(canvasStates) - 1)
       => /\ currentStateIndex' = currentStateIndex + 1
          /\ canvasStates' = canvasStates
          /\ 0 <= currentStateIndex'
          /\ currentStateIndex' <= Len(canvasStates) - 1
          /\ sent' = ToAllOpen([type |-> "redo",
                                stateIndex |-> currentStateIndex',
                                stateData |-> canvasStates[currentStateIndex' + 1]])]_vars

\* C10: a redo received while current = length - 1 (also on the empty history,
\* current = -1) leaves history and current unchanged and sends nothing.
C10_RedoAtTop ==
    [][(/\ event'.on = "message"
        /\ event'.message.type = "redo"
        /\ currentStateIndex = Len(canvasStates) - 1)
       => /\ currentStateIndex' = currentStateIndex
          /\ canvasStates' = canvasStates
          /\ canvasProps' = canvasProps
          /\ connections' = connections
          /\ \A u \in UserIds : sent'[u] = <<>>]_vars

\* C10 witness: a redo handled at the top of a non-empty history: nothing was
\* sent although two participants are connected.
C10_Witness ==
    /\ Handled("redo")
    /\ Len(canvasStates) > 0
    /\ currentStateIndex = Len(canvasStates) - 1
    /\ Cardinality(Registered) = 2
    /\ \A u \in UserIds : sent[u] = <<>>

---------------------------------------------------------------------------
(* Properties of clear, the relays, save-state, onboarding, parse errors,  *)
(* disconnects and the clean-up timer.                                     *)

\* C11: a clear from any participant, whatever the history length and the
\* cursor (also a cursor the clean-up timer left below -1), leaves the history
\* empty and current = -1 and sends a clear message to every open participant;
\* an undo or a redo handled right after it changes nothing and sends nothing.
C11_ClearResets ==
    /\ [](Handled("clear")
          => /\ Len(canvasStates) = 0
             /\ currentStateIndex = -1
             /\ sent = ToAllOpen([type |-> "clear", userId |-> event.from]))
    /\ [][(/\ Handled("clear")
           /\ event'.on = "message"
           /\ event'.message.type \in {"undo", "redo"})
          => /\ canvasStates' = <<>>
             /\ currentStateIndex' = -1
             /\ canvasProps' = canvasProps
             /\ connections' = connections
             /\ \A u \in UserIds : sent'[u] = <<>>]_vars

\* C11 witness: a clear handled after the cursor had been below -1 (a snapshot
\* was stored under a negative key), with two participants connected.
C11_Witness ==
    /\ Handled("clear")
    /\ canvasProps # NoProps
    /\ Cardinality(Registered) = 2
    /\ sent[1] # <<>>
    /\ sent[2] # <<>>

\* C12: a draw-start or draw-move from participant X reaches every other
\* registered participant whose transport is open and never X, carries every
\* field of the inbound message unchanged except userId, which is X's id, and
\* leaves the history and current unchanged.
C12_DrawRelayed ==
    /\ []((event.on = "message" /\ event.message.type \in {"draw-start", "draw-move"})
          => \A v \in UserIds :
                IF v \in OpenUsers \ {event.from}
                THEN /\ Len(sent[v]) = 1
                     /\ DOMAIN sent[v][1] = DOMAIN event.message \cup {"userId"}
                     /\ sent[v][1].userId = event.from
                     /\ \A f \in DOMAIN event.message \ {"userId"} :
                           sent[v][1][f] = event.message[f]
                ELSE sent[v] = <<>>)
    /\ [][(event'.on = "message" /\ event'.message.type \in {"draw-start", "draw-move"})
          => UNCHANGED <<canvasStates, canvasProps, currentStateIndex, connections>>]_vars

\* C12 witness: a draw-move of participant 2 that claimed userId 1 was
\* delivered to participant 1 over a non-empty history.
C12_Witness ==
    /\ Handled("draw-move")
    /\ event.from = 2
    /\ event.message.userId = 1
    /\ sent[1] # <<>>
    /\ sent[1][1].userId = 2
    /\ currentStateIndex >= 0

\* C13: every draw-end received from a participant, the one the client sends
\* when a stroke ends included, makes the server send a save-state request to
\* every open participant, the sender included, and leaves the history and
\* current unchanged.
C13_DrawEndRequestsSave ==
    /\ [](Handled("draw-end")
          => sent = ToAllOpen([type |-> "save-state", userId |-> event.from]))
    /\ [][(event'.on = "message" /\ event'.message.type = "draw-end")
          => UNCHANGED <<canvasStates, canvasProps, currentStateIndex>>]_vars

\* C15: a save-state message makes the server send nothing to anybody; a
\* save-state whose stateData is absent or the empty string also leaves the
\* history and current unchanged.
C15_SaveStateIsSilent ==
    /\ [](Handled("save-state") => \A u \in UserIds : sent[u] = <<>>)
    /\ [][(/\ event'.on = "message"
           /\ event'.message.type = "save-state"
           /\ \/ "stateData" \notin DOMAIN event'.message
              \/ event'.message.stateData = Str(0))
          => UNCHANGED <<canvasStates, canvasProps, currentStateIndex, connections>>]_vars

\* C15 witness: a save-state with the empty string as payload was handled over
\* a history longer than the retention cap while two participants were
\* connected.
C15_Witness ==
    /\ Handled("save-state")
    /\ "stateData" \in DOMAIN event.message
    /\ event.message.stateData = Str(0)
    /\ Len(canvasStates) > RetentionCap
    /\ Cardinality(Registered) = 2

\* the messages of one type among those sent to user id v
SentOfType(v, type) == SelectSeq(sent[v], LAMBDA msg : msg.type = type)

\* the colour the registry holds for user id u
AssignedColor(u) ==
    (CHOOSE r \in {connections[i] : i \in DOMAIN connections} : r.userId = u).color

\* C16: a message of a kind the switch does not name (cursor-move) reaches
\* every open participant except the sender, with userId set to the sender's
\* id and color set to the colour assigned to the sender at connect, whatever
\* userId and color the inbound message carried, its other fields unchanged;
\* the history and current are unchanged.
C16_DefaultRelayed ==
    /\ [](Handled("cursor-move")
          => \A v \in UserIds :
                IF v \in OpenUsers \ {event.from}
                THEN /\ Len(sent[v]) = 1
                     /\ DOMAIN sent[v][1] = DOMAIN event.message \cup {"userId", "color"}
                     /\ sent[v][1].userId = event.from
                     /\ sent[v][1].color = AssignedColor(event.from)
                     /\ \A f \in DOMAIN event.message \ {"userId", "color"} :
                           sent[v][1][f] = event.message[f]
                ELSE sent[v] = <<>>)
    /\ [][(event'.on = "message" /\ event'.message.type = "cursor-move")
          => UNCHANGED <<canvasStates, canvasProps, currentStateIndex, connections>>]_vars

\* C16 witness: a cursor-move of participant 2 that claimed userId 1 and
\* colour 1 reached participant 1 with userId 2 and colour 2.
C16_Witness ==
    /\ Handled("cursor-move")
    /\ event.from = 2
    /\ "color" \in DOMAIN event.message
    /\ event.message.color = 1
    /\ event.message.userId = 1
    /\ sent[1] # <<>>
    /\ sent[1][1].color = 2
    /\ sent[2] = <<>>
    /\ currentStateIndex >= 0

\* C17: the connection handler sends the joiner one canvas-state message
\* exactly when current >= 0, with stateIndex = current and stateData the
\* entry at current; it sends a canvas-state to nobody else and no other
\* history entry to the joiner.
C17_CanvasStateOnConnect ==
    [](event.on = "connection"
       => /\ \A v \in UserIds \ {event.from} : SentOfType(v, "canvas-state") = <<>>
          /\ IF currentStateIndex >= 0
             THEN SentOfType(event.from, "canvas-state")
                    = <<[type |-> "canvas-state",
                         stateIndex |-> currentStateIndex,
                         stateData |-> canvasStates[currentStateIndex + 1]]>>
             ELSE SentOfType(event.from, "canvas-state") = <<>>
          /\ Len(sent[event.from])
               = 2 + Len(SentOfType(event.from, "canvas-state"))
                   + Len(SentOfType(event.from, "user-joined")))

\* C17 witness: a participant joined while current pointed below the top of a
\* history longer than the retention cap and was sent the entry at current.
C17_Witness ==
    /\ event.on = "connection"
    /\ Len(canvasStates) > RetentionCap
    /\ 0 <= currentStateIndex
    /\ currentStateIndex < Len(canvasStates) - 1
    /\ SentOfType(event.from, "canvas-state") # <<>>

\* C18: a payload JSON.parse rejects leaves the history, current and the
\* registry unchanged and sends nothing; the sender stays registered with its
\* transport open, and its next message is handled as any other: a cursor-move
\* it sends next is relayed to the other open participants.
C18_ParseErrorContained ==
    /\ [][event'.on = "unparsable"
          => /\ UNCHANGED <<canvasStates, canvasProps, currentStateIndex, connections>>
             /\ \A u \in UserIds : sent'[u] = <<>>]_vars
    /\ [](event.on = "unparsable" => event.from \in OpenUsers)
    /\ [][(/\ event.on = "unparsable"
           /\ event'.on = "message"
           /\ event'.from = event.from
           /\ event'.message.type = "cursor-move")
          => \A v \in OpenUsers \ {event.from} :
                /\ Len(sent'[v]) = 1
                /\ sent'[v][1].userId = event.from]_vars

\* C18 witness: an unparsable payload of participant 2 was handled over a
\* non-empty history while participant 1 was connected too.
C18_Witness ==
    /\ event.on = "unparsable"
    /\ event.from = 2
    /\ 1 \in OpenUsers
    /\ currentStateIndex >= 0

\* C19: the close of a participant's transport, whatever was handled before
\* it, removes that participant's record and no other from the registry, sends
\* user-left with its id to every remaining participant whose transport is
\* open and to nobody else, and leaves the history and current unchanged.
C19_CloseUnregisters ==
    [][event'.on = "close"
       => /\ event'.from \in Registered
          /\ connections' = SelectSeq(connections, LAMBDA r : r.userId # event'.from)
          /\ \A v \in UserIds :
                sent'[v] = IF v \in OpenUsers \ {event'.from}
                           THEN <<[type |-> "user-left", userId |-> event'.from]>>
                           ELSE <<>>
          /\ UNCHANGED <<canvasStates, canvasProps, currentStateIndex>>]_vars

\* C19 witness: participant 1 closed right after a stroke it had begun, over a
\* non-empty history; participant 2 stayed and was told.
C19_Witness ==
    /\ event.on = "close"
    /\ event.from = 1
    /\ Registered = {2}
    /\ sent[2] = <<[type |-> "user-left", userId |-> 1]>>
    /\ sent[1] = <<>>
    /\ currentStateIndex >= 0

\* C20: whenever the history is longer than 50 entries, with the timer firing
\* again and again the length becomes at most 50, also if no save-state
\* arrives any more; a firing of the timer either leaves the array alone (the
\* length is at most 50) or removes its oldest length - 50 entries and no
\* other (the length is above 50).
C20_SweepEventuallyTrims ==
    /\ (Len(canvasStates) > RetentionCap) ~> (Len(canvasStates) <= RetentionCap)
    /\ [][event'.on = "interval"
          => IF Len(canvasStates) > RetentionCap
             THEN /\ Len(canvasStates') = RetentionCap
                  /\ \A i \in 1..RetentionCap :
                        canvasStates'[i]
                          = canvasStates[i + Len(canvasStates) - RetentionCap]
             ELSE canvasStates' = canvasStates]_vars

\* C20 witness: the timer fired on a history of 51 entries and left the 50
\* newest.
C20_Witness ==
    /\ event.on = "interval"
    /\ Len(canvasStates) = RetentionCap
    /\ canvasStates[1] = Str(2)
    /\ canvasStates[RetentionCap] = Str(RetentionCap + 1)

\* nothing is in flight, no stroke is in progress and no save timer is pending
Quiescent ==
    \A u \in UserIds :
        /\ ~isDrawing[u]
        /\ saveTimers[u] = 0
        /\ toServer[u] = <<>>
        /\ toClient[u] = <<>>

\* C14: every stroke a participant completed (the server handled its
\* draw-start and its draw-end) has appended exactly one snapshot to the
\* history once the pages have sent what they had to send and the server has
\* handled it, however many participants are connected.
C14_OneSnapshotPerStroke ==
    Quiescent => Len(canvasStates) = strokes.ended

\* the user id a broadcast of the last handler left out (NoUser: nobody)
Excluded ==
    IF event.on = "message"
       /\ event.message.type \in {"draw-start", "draw-move", "cursor-move"}
    THEN event.from
    ELSE NoUser

\* what the last handler sent to v by broadcast: all of it, but for the joiner
\* of a connection only the user-joined
Broadcast(v) ==
    IF event.on = "connection" THEN SentOfType(v, "user-joined") ELSE sent[v]

\* C21: every broadcast (relays, undo, draw-end request, user-joined,
\* user-left) delivers one and the same message exactly once to every
\* registered participant whose transport is open and who is not the excluded
\* one, and to nobody else; a registered participant whose transport is not
\* open gets nothing while the others still get theirs.
C21_BroadcastContract ==
    [](\A v \in UserIds :
          /\ Len(Broadcast(v)) <= 1
          /\ (\E w \in UserIds : Broadcast(w) # <<>>)
                => (Broadcast(v) # <<>> <=> v \in OpenUsers \ {Excluded})
          /\ \A w \in UserIds :
                (Broadcast(v) # <<>> /\ Broadcast(w) # <<>>)
                   => Broadcast(v) = Broadcast(w))
    /\ []((event.on \in {"connection", "close"}
           \/ (event.on = "message"
               /\ event.message.type \in {"draw-start", "draw-move", "cursor-move"}))
          => \A v \in OpenUsers \ {Excluded} : Broadcast(v) # <<>>)

\* C21 witness: an undo was broadcast while the first registered participant's
\* transport was closing: it got nothing, the participant registered after it
\* got the undo.
C21_Witness ==
    /\ Handled("undo")
    /\ Len(connections) = 2
    /\ connections[1].readyState = "CLOSING"
    /\ sent[connections[1].userId] = <<>>
    /\ Len(sent[connections[2].userId]) = 1

\* C22: the user-list sent to a connecting participant lists exactly the
\* participants registered at that moment, the joiner included (last) and
\* those already closed excluded, each once, in registration order, with the
\* id, colour and name of each.
C22_UserListOnConnect ==
    [](event.on = "connection"
       => /\ Len(SentOfType(event.from, "user-list")) = 1
          /\ LET data == SentOfType(event.from, "user-list")[1].data
             IN  /\ Len(data) = Len(connections)
                 /\ \A i \in DOMAIN connections :
                       /\ data[i].id = connections[i].userId
                       /\ data[i].color = connections[i].color
                       /\ data[i].name = connections[i].name
                 /\ \A i, j \in DOMAIN data : data[i].id = data[j].id => i = j
                 /\ data[Len(data)].id = event.from
                 /\ {data[i].id : i \in DOMAIN data} = Registered)

\* C22 witness: participant 1 left and joined again while participant 2
\* stayed: the list names 2 first and 1 last, and nobody twice.
C22_Witness ==
    /\ event.on = "connection"
    /\ event.from = 1
    /\ Len(connections) = 2
    /\ SentOfType(1, "user-list")[1].data[1].id = 2
    /\ SentOfType(1, "user-list")[1].data[2].id = 1

\* C24: an undo taken at 0 <= current <= length - 1 followed at once by a redo,
\* and a redo taken at -1 <= current < length - 1 followed at once by an undo,
\* give back the history and the cursor: the first step moves the cursor by
\* one and keeps every entry, the step that follows it moves the cursor back
\* and keeps every entry (an undo down to the blank canvas included).
C24_UndoRedoRoundTrip ==
    /\ [][(/\ event'.on = "message"
           /\ event'.message.type = "undo"
           /\ 0 <= currentStateIndex
           /\ currentStateIndex <= Len(canvasStates) - 1)
          => /\ currentStateIndex' = currentStateIndex - 1
             /\ \E u \in UserIds : sent'[u] # <<>>
             /\ UNCHANGED <<canvasStates, canvasProps>>]_vars
    /\ [][(/\ Handled("undo")
           /\ \E u \in UserIds : sent[u] # <<>>
           /\ event'.on = "message"
           /\ event'.message.type = "redo")
          => /\ currentStateIndex' = currentStateIndex + 1
             /\ UNCHANGED <<canvasStates, canvasProps>>]_vars
    /\ [][(/\ event'.on = "message"
           /\ event'.message.type = "redo"
           /\ -1 <= currentStateIndex
           /\ currentStateIndex < Len(canvasStates) - 1)
          => /\ currentStateIndex' = currentStateIndex + 1
             /\ \E u \in UserIds : sent'[u] # <<>>
             /\ UNCHANGED <<canvasStates, canvasProps>>]_vars
    /\ [][(/\ Handled("redo")
           /\ \E u \in UserIds : sent[u] # <<>>
           /\ currentStateIndex >= 0
           /\ event'.on = "message"
           /\ event'.message.type = "undo")
          => /\ currentStateIndex' = currentStateIndex - 1
             /\ UNCHANGED <<canvasStates, canvasProps>>]_vars

\* C24 witness: an undo handled at current = 0 of a history longer than the
\* retention cap (the state a redo from the blank canvas leaves): the canvas
\* is blank again and every entry is kept.
C24_Witness ==
    /\ Handled("undo")
    /\ currentStateIndex = -1
    /\ Len(canvasStates) > RetentionCap
    /\ \E u \in UserIds :
          /\ sent[u] # <<>>
          /\ sent[u][1].stateIndex = -1

\* C25: every relayed message delivered to a recipient carries the userId of
\* the connection that sent it, whatever userId the inbound message carried; a
\* relayed cursor-move carries the colour assigned to the sender whatever
\* colour came in, a relayed draw-start or draw-move the colour that came in.
C25_RelayStampsSender ==
    []((event.on = "message"
        /\ event.message.type \in {"draw-start", "draw-move", "cursor-move"})
       => \A v \in UserIds : \A i \in DOMAIN sent[v] :
             /\ sent[v][i].userId = event.from
             /\ sent[v][i].userId \in Registered
             /\ sent[v][i].color = IF event.message.type = "cursor-move"
                                   THEN AssignedColor(event.from)
                                   ELSE event.message.color)

\* C25 witness: a draw-start of participant 2 (assigned colour 2) drawn in
\* colour 1 reached participant 1 in colour 1 with userId 2.
C25_Witness ==
    /\ Handled("draw-start")
    /\ event.from = 2
    /\ AssignedColor(2) = 2
    /\ sent[1] # <<>>
    /\ sent[1][1].color = 1
    /\ sent[1][1].userId = 2

\* C26: a draw-end whose userId is absent or is not the sender's id sends
\* nothing and changes nothing; the save-state request goes out, to every open
\* participant, exactly when the inbound userId is the sender's id.
C26_DrawEndNeedsOwnId ==
    /\ [](Handled("draw-end")
          => IF "userId" \in DOMAIN event.message /\ event.message.userId = event.from
             THEN sent = ToAllOpen([type |-> "save-state", userId |-> event.from])
             ELSE \A v \in UserIds : sent[v] = <<>>)
    /\ [][(event'.on = "message" /\ event'.message.type = "draw-end")
          => UNCHANGED <<canvasStates, canvasProps, currentStateIndex, connections>>]_vars

\* C26 witness: a draw-end of participant 2 that carried userId 1 was handled
\* while participant 1 was open: nothing was sent.
C26_Witness ==
    /\ Handled("draw-end")
    /\ event.from = 2
    /\ "userId" \in DOMAIN event.message
    /\ event.message.userId = 1
    /\ 1 \in OpenUsers
    /\ sent[1] = <<>>
    /\ sent[2] = <<>>

\* the types of the messages sent to v by the last handler, in order
SentTypes(v) == [i \in DOMAIN sent[v] |-> sent[v][i].type]

\* C27: the connection handler sends the joiner welcome, user-list,
\* canvas-state (only if current >= 0) and user-joined, in this order and
\* nothing else; the user-joined goes to every registered open participant,
\* the joiner included, and to the others nothing else; the joiner is in the
\* registry, welcome carries its id and user-joined its id, colour and name.
C27_ConnectSequence ==
    [](event.on = "connection"
       => /\ event.from \in Registered
          /\ SentTypes(event.from)
               = IF currentStateIndex >= 0
                 THEN <<"welcome", "user-list", "canvas-state", "user-joined">>
                 ELSE <<"welcome", "user-list", "user-joined">>
          /\ sent[event.from][1].userId = event.from
          /\ \A v \in UserIds \ {event.from} :
                SentTypes(v) = IF v \in OpenUsers THEN <<"user-joined">> ELSE <<>>
          /\ \A v \in OpenUsers :
                sent[v][Len(sent[v])]
                  = [type |-> "user-joined", userId |-> event.from,
                     color |-> AssignedColor(event.from),
                     name |-> Len(connections)])

\* C27 witness: participant 2 joined over a non-empty history while
\* participant 1 was open: four messages to 2, the user-joined to both.
C27_Witness ==
    /\ event.on = "connection"
    /\ event.from = 2
    /\ currentStateIndex >= 0
    /\ Len(sent[2]) = 4
    /\ SentTypes(1) = <<"user-joined">>

\* what the server holds as the canvas: the snapshot at current, a blank
\* canvas when current = -1
ServerCanvas ==
    IF currentStateIndex = -1 THEN toDataURL({})
    ELSE ArrayGet(canvasStates, canvasProps, currentStateIndex)

\* C23: whenever nothing is in flight, no stroke is in progress and no save
\* timer is pending, the canvas of every connected page shows the server's
\* snapshot at current (a blank canvas when current = -1), whatever the order
\* in which strokes, save-states, undo, redo and clear of several participants
\* were handled.
C23_PagesShowServerSnapshot ==
    Quiescent => \A u \in Registered : toDataURL(canvas[u]) = ServerCanvas

====
